---- MODULE Spec2Model ----
(***************************************************************************)
(* pypexel: a client of the Pexels REST API.  One client object, one call  *)
(* in progress at a time: a facade operation validates its arguments,      *)
(* hands a parameter mapping to _make_request, which issues one GET and    *)
(* classifies what comes back.                                             *)
(***************************************************************************)
EXTENDS Integers, Sequences, FiniteSets, TLC

VARIABLES
    pc,       \* position of the caller: "idle", "waiting" (inside requests.get), "done"
    call,     \* the facade operation in progress, its arguments and the params it built
    http,     \* the GETs issued by the call in progress, in order
    answer,   \* what requests.get answered to the call in progress
    result,   \* what the call returns or raises
    self,     \* the client object: api_key, headers and the two base URLs
    environ,  \* what os.getenv("PEXELS_API_KEY") returns
    stdout,   \* the lines printed by the call in progress
    files,    \* the files on disk: name -> the chunks written to it
    threads   \* the calls made on the client from other threads

vars == <<pc, call, http, answer, result, self, environ, stdout, files, threads>>

----------------------------------------------------------------------------
(* Python values.  Every value carries its type so that values of          *)
(* different types can be told apart (None, 0 and "" are three values).    *)

PyNone == [t |-> "none"]
PyInt(n) == [t |-> "int", i |-> n]
PyStr(s) == [t |-> "str", s |-> s]
PyBool(b) == [t |-> "bool", b |-> b]
PyDict(f) == [t |-> "dict", d |-> f]
PyList(q) == [t |-> "list", l |-> q]

\* bool(v): Python's truth value, as used by: not query, if params, a or b
Truthy(v) ==
    CASE v.t = "none" -> FALSE
      [] v.t = "int"  -> v.i # 0
      [] v.t = "str"  -> v.s # ""
      [] v.t = "bool" -> v.b
      [] v.t = "dict" -> DOMAIN v.d # {}
      [] v.t = "list" -> v.l # <<>>
      [] v.t = "float" -> v.f # "0.0"

\* str(v) inside an f-string
Format(v) ==
    CASE v.t = "int"  -> ToString(v.i)
      [] v.t = "str"  -> v.s
      [] v.t = "none" -> "None"

StartsWith(s, p) == Len(s) >= Len(p) /\ SubSeq(s, 1, Len(p)) = p

\* s.lstrip('/')
RECURSIVE Lstrip(_)
Lstrip(s) ==
    IF Len(s) > 0 /\ SubSeq(s, 1, 1) = "/" THEN Lstrip(SubSeq(s, 2, Len(s))) ELSE s

----------------------------------------------------------------------------
(* Exceptions: a class and a message.  Bases gives the classes an          *)
(* exception is an instance of, which is what an except clause tests.      *)

NoExc == [cls |-> "none", msg |-> ""]
Exc(cls, msg) == [cls |-> cls, msg |-> msg]
ValueError(msg) == Exc("ValueError", msg)
PexelsAPIError(msg) == Exc("PexelsAPIError", msg)

Bases(cls) ==
    CASE cls = "HTTPError"       -> {"HTTPError", "RequestException", "OSError", "Exception"}
      [] cls = "ConnectionError" -> {"ConnectionError", "RequestException", "OSError", "Exception"}
      [] cls = "Timeout"         -> {"Timeout", "RequestException", "OSError", "Exception"}
      [] cls = "JSONDecodeError" -> {"JSONDecodeError", "InvalidJSONError", "RequestException",
                                     "OSError", "ValueError", "Exception"}
      [] cls = "ValueError"      -> {"ValueError", "Exception"}
      [] cls = "PexelsAPIError"  -> {"PexelsAPIError", "Exception"}
      [] OTHER                   -> {cls, "Exception"}

IsInstance(e, cls) == cls \in Bases(e.cls)

Returned(v) == [kind |-> "return", value |-> v, exc |-> NoExc]
Raised(e) == [kind |-> "raise", value |-> PyNone, exc |-> e]
Pending == [kind |-> "pending", value |-> PyNone, exc |-> NoExc]

----------------------------------------------------------------------------
(* Configuration fixed in the class body.                                  *)

BASE_URL == "https://api.pexels.com/v1/"
VIDEO_BASE_URL == "https://api.pexels.com/videos/"
PER_PAGE_MAX == 80
TIMEOUT == 30

----------------------------------------------------------------------------
(* Bounds of the model and the argument values drawn for each call.        *)

MaxPage == 2
PerPageOver == 1

Pages == {PyInt(n) : n \in -1 .. MaxPage}
PerPages == {PyInt(n) : n \in {-1, 0, 15} \cup (PER_PAGE_MAX .. PER_PAGE_MAX + PerPageOver)}
Queries == {PyNone, PyStr(""), PyStr("cats")}
Orientations == {PyNone, PyStr(""), PyStr("landscape")}
Sizes == {PyNone, PyStr("large")}
Colors == {PyNone, PyStr("")}
Locales == {PyNone, PyStr("en-US")}
MinWidths == {PyNone, PyInt(0), PyInt(1280)}
MinHeights == {PyNone, PyInt(720)}
MinDurations == {PyNone, PyInt(0)}
MaxDurations == {PyNone, PyInt(60)}
Ids == {PyInt(7), PyStr("abc"), PyStr("../../videos/popular")}
MediaTypes == {PyNone, PyStr("photos"), PyStr("videos"), PyStr("Photo"), PyStr("")}
Sorts == {PyStr("asc"), PyStr("desc"), PyNone}
Flags == {PyBool(FALSE), PyBool(TRUE)}

----------------------------------------------------------------------------
(* Argument checks, one per facade operation, in the order of the code:    *)
(* the first check that fails raises, the later ones are not evaluated.    *)

\* variant: the page check is missing
search_photos_validate_nopage(query, page, per_page) ==
    IF ~Truthy(query) THEN ValueError("Query parameter is required")
    ELSE IF per_page.i > PER_PAGE_MAX THEN ValueError("per_page cannot exceed 80")
    ELSE NoExc

search_photos_validate(query, page, per_page) ==
    IF ~Truthy(query) THEN ValueError("Query parameter is required")
    ELSE IF per_page.i > PER_PAGE_MAX THEN ValueError("per_page cannot exceed 80")
    ELSE IF page.i < 1 THEN ValueError("page must be >= 1")
    ELSE NoExc

\* variant: the query is tested with "is None" and an empty string passes
search_videos_validate_isnone(query, page, per_page) ==
    IF query = PyNone THEN ValueError("Query parameter is required")
    ELSE IF per_page.i > PER_PAGE_MAX THEN ValueError("per_page cannot exceed 80")
    ELSE IF page.i < 1 THEN ValueError("page must be >= 1")
    ELSE NoExc

search_videos_validate(query, page, per_page) ==
    IF ~Truthy(query) THEN ValueError("Query parameter is required")
    ELSE IF per_page.i > PER_PAGE_MAX THEN ValueError("per_page cannot exceed 80")
    ELSE IF page.i < 1 THEN ValueError("page must be >= 1")
    ELSE NoExc

get_curated_photos_validate(page, per_page) ==
    IF per_page.i > PER_PAGE_MAX THEN ValueError("per_page cannot exceed 80")
    ELSE IF page.i < 1 THEN ValueError("page must be >= 1")
    ELSE NoExc

get_popular_videos_validate(page, per_page) ==
    IF per_page.i > PER_PAGE_MAX THEN ValueError("per_page cannot exceed 80")
    ELSE IF page.i < 1 THEN ValueError("page must be >= 1")
    ELSE NoExc

get_featured_collections_validate(page, per_page) ==
    IF per_page.i > PER_PAGE_MAX THEN ValueError("per_page cannot exceed 80")
    ELSE IF page.i < 1 THEN ValueError("page must be >= 1")
    ELSE NoExc

\* variant: per_page is compared with >= and 80 itself is rejected
get_my_collections_validate_ge(page, per_page) ==
    IF per_page.i >= PER_PAGE_MAX THEN ValueError("per_page cannot exceed 80")
    ELSE IF page.i < 1 THEN ValueError("page must be >= 1")
    ELSE NoExc

get_my_collections_validate(page, per_page) ==
    IF per_page.i > PER_PAGE_MAX THEN ValueError("per_page cannot exceed 80")
    ELSE IF page.i < 1 THEN ValueError("page must be >= 1")
    ELSE NoExc

\* variant: None is missing from the allowed media types
get_collection_media_validate_nonone(media_type, page, per_page) ==
    IF per_page.i > PER_PAGE_MAX THEN ValueError("per_page cannot exceed 80")
    ELSE IF page.i < 1 THEN ValueError("page must be >= 1")
    ELSE IF media_type \notin {PyStr("photos"), PyStr("videos")}
         THEN ValueError("media_type must be either photos or videos")
    ELSE NoExc

get_collection_media_validate(media_type, page, per_page) ==
    IF per_page.i > PER_PAGE_MAX THEN ValueError("per_page cannot exceed 80")
    ELSE IF page.i < 1 THEN ValueError("page must be >= 1")
    ELSE IF media_type \notin {PyStr("photos"), PyStr("videos"), PyNone}
         THEN ValueError("media_type must be either photos or videos")
    ELSE NoExc

----------------------------------------------------------------------------
(* _make_request, first half: the URL, the cleaned parameters, the GET.    *)

\* a or b
PyOr(a, b) == IF Truthy(a) THEN a ELSE b

\* s.split('/')
RECURSIVE SplitFrom(_, _, _, _)
SplitFrom(s, i, cur, acc) ==
    IF i > Len(s) THEN Append(acc, cur)
    ELSE IF SubSeq(s, i, i) = "/" THEN SplitFrom(s, i + 1, "", Append(acc, cur))
    ELSE SplitFrom(s, i + 1, cur \o SubSeq(s, i, i), acc)

Split(s) == SplitFrom(s, 1, "", <<>>)

\* '/'.join(segs)
RECURSIVE Join(_)
Join(segs) ==
    IF segs = <<>> THEN ""
    ELSE IF Len(segs) = 1 THEN segs[1]
    ELSE segs[1] \o "/" \o Join(Tail(segs))

\* filter(None, segs): the non-empty segments
RECURSIVE NonEmpty(_)
NonEmpty(segs) ==
    IF segs = <<>> THEN <<>>
    ELSE IF segs[1] = "" THEN NonEmpty(Tail(segs))
    ELSE <<segs[1]>> \o NonEmpty(Tail(segs))

\* urljoin's loop over the segments: ".." pops the last resolved segment (if
\* there is one), "." is skipped, anything else is appended
RECURSIVE Resolve(_, _)
Resolve(segs, resolved) ==
    IF segs = <<>> THEN resolved
    ELSE IF segs[1] = ".."
         THEN Resolve(Tail(segs),
                      IF resolved = <<>> THEN resolved
                      ELSE SubSeq(resolved, 1, Len(resolved) - 1))
    ELSE IF segs[1] = "." THEN Resolve(Tail(segs), resolved)
    ELSE Resolve(Tail(segs), Append(resolved, segs[1]))

\* urljoin(base, ref) of urllib.parse, for an absolute base
\* scheme://netloc/path and a reference without scheme, netloc, query and
\* fragment: the path of the reference is merged into the path of the base
\* and its dot segments are resolved
Urljoin(base, ref) ==
    IF ref = "" THEN base
    ELSE
    LET parts == Split(base)
        origin == parts[1] \o "//" \o parts[3]
        bpath == <<"">> \o SubSeq(parts, 4, Len(parts))
        base_parts == IF bpath[Len(bpath)] # "" THEN SubSeq(bpath, 1, Len(bpath) - 1) ELSE bpath
        joined == IF SubSeq(ref, 1, 1) = "/" THEN Split(ref) ELSE base_parts \o Split(ref)
        segments == <<joined[1]>> \o NonEmpty(SubSeq(joined, 2, Len(joined) - 1))
                    \o <<joined[Len(joined)]>>
        resolved == Resolve(segments, <<>>)
        closed == IF segments[Len(segments)] \in {".", ".."} THEN Append(resolved, "")
                  ELSE resolved
        path == IF Join(closed) = "" THEN "/" ELSE Join(closed)
    IN origin \o (IF SubSeq(path, 1, 1) = "/" THEN path ELSE "/" \o path)

\* variant: the comprehension keeps the truthy values (if v) and drops "" and 0
CleanParams_truthy(params) ==
    IF Truthy(params)
    THEN PyDict([k \in {j \in DOMAIN params.d : Truthy(params.d[j])} |-> params.d[k]])
    ELSE params

\* { k: v for k, v in params.items() if v is not None }, under the guard: if params
CleanParams(params) ==
    IF Truthy(params)
    THEN PyDict([k \in {j \in DOMAIN params.d : params.d[j] # PyNone} |-> params.d[k]])
    ELSE params

\* no client object: before construction, or the constructor raised
NoClient == [t |-> "unbound"]

\* what api_key and os.getenv("PEXELS_API_KEY") can be: None, "", a key
ApiKeys == {PyNone, PyStr(""), PyStr("key")}
EnvValues == {PyNone, PyStr(""), PyStr("env-key")}

\* variant: the environment variable is preferred to the argument
\* (os.getenv("PEXELS_API_KEY") or api_key)
__init___envfirst(api_key, getenv) ==
    LET key == PyOr(getenv, api_key) IN
    IF ~Truthy(key)
    THEN [exc |-> ValueError("API key is required. Provide it directly or set PEXELS_API_KEY environment variable."),
          self |-> NoClient]
    ELSE [exc |-> NoExc,
          self |-> [t |-> "Pexels",
                    api_key |-> key,
                    headers |-> PyDict(("Authorization" :> key)
                                       @@ ("User-Agent" :> PyStr("pypexel/0.1.1"))),
                    BASE_URL |-> PyStr(BASE_URL),
                    VIDEO_BASE_URL |-> PyStr(VIDEO_BASE_URL)]]

\* Pexels(api_key), getenv being what os.getenv("PEXELS_API_KEY") returns:
\* the exception it raises (NoExc when none) and the object it builds
__init__(api_key, getenv) ==
    LET key == PyOr(api_key, getenv) IN
    IF ~Truthy(key)
    THEN [exc |-> ValueError("API key is required. Provide it directly or set PEXELS_API_KEY environment variable."),
          self |-> NoClient]
    ELSE [exc |-> NoExc,
          self |-> [t |-> "Pexels",
                    api_key |-> key,
                    headers |-> PyDict(("Authorization" :> key)
                                       @@ ("User-Agent" :> PyStr("pypexel/0.1.1"))),
                    BASE_URL |-> PyStr(BASE_URL),
                    VIDEO_BASE_URL |-> PyStr(VIDEO_BASE_URL)]]

\* the arguments of requests.get(url, headers=self.headers, params=params, timeout=30)
GetRequest(endpoint, params, base_url) ==
    [url     |-> Urljoin(PyOr(base_url, self.BASE_URL).s, Lstrip(endpoint)),
     headers |-> self.headers,
     params  |-> CleanParams(params),
     timeout |-> TIMEOUT]

\* variant: the GET is issued a second time
requests_get_twice(log, req) == Append(Append(log, req), req)

\* requests.get is called: one more GET on the wire
requests_get(log, req) == Append(log, req)

----------------------------------------------------------------------------
(* What the transport can answer: a response with a status and a body, or  *)
(* an exception of requests (no response received).                        *)

NotJson == [t |-> "invalid"]

Statuses == {200, 204, 304, 400, 403, 404, 429, 500, 599}

Bodies ==
    { [text |-> "<html>Bad Gateway</html>", json |-> NotJson],
      [text |-> "", json |-> NotJson],
      [text |-> "{}", json |-> PyDict(<<>>)],
      [text |-> "[]", json |-> PyList(<<>>)],
      [text |-> "{\"photos\": [{\"id\": 1}, {\"id\": 3}], "
                  \o "\"videos\": [{\"id\": 2}, {\"id\": 4}], "
                  \o "\"collections\": [{\"id\": \"c\"}, {\"id\": \"d\"}], "
                  \o "\"media\": [{\"type\": \"Photo\", \"id\": 1}, {\"type\": \"Video\", \"id\": 2}]}",
       json |-> PyDict([photos |-> PyList(<<PyDict([id |-> PyInt(1)]), PyDict([id |-> PyInt(3)])>>),
                        videos |-> PyList(<<PyDict([id |-> PyInt(2)]), PyDict([id |-> PyInt(4)])>>),
                        collections |-> PyList(<<PyDict([id |-> PyStr("c")]),
                                                 PyDict([id |-> PyStr("d")])>>),
                        media |-> PyList(<<PyDict([type |-> PyStr("Photo"), id |-> PyInt(1)]),
                                           PyDict([type |-> PyStr("Video"), id |-> PyInt(2)])>>)])] }

TransportExceptions ==
    { Exc("ConnectionError", "Connection failed"), Exc("Timeout", "Read timed out") }

TransportOutcomes ==
    { [kind |-> "response", status_code |-> s, text |-> b.text, json |-> b.json, exc |-> NoExc] :
        s \in Statuses, b \in Bodies }
    \cup
    { [kind |-> "exception", status_code |-> 0, text |-> "", json |-> NotJson, exc |-> e] :
        e \in TransportExceptions }

----------------------------------------------------------------------------
(* _make_request, second half: the try block after requests.get, then the  *)
(* except clauses in the order they are written.                           *)

\* variant: only a 5xx status raises
raise_for_status_5xx(o) ==
    IF 500 <= o.status_code /\ o.status_code < 600
    THEN Exc("HTTPError", ToString(o.status_code) \o " Error")
    ELSE NoExc

\* response.raise_for_status(): HTTPError for a 4xx or 5xx status
raise_for_status(o) ==
    IF 400 <= o.status_code /\ o.status_code < 600
    THEN Exc("HTTPError", ToString(o.status_code) \o " Error")
    ELSE NoExc

\* response.json(): the decoded body, or the JSONDecodeError of requests
response_json(o) ==
    IF o.json = NotJson
    THEN Raised(Exc("JSONDecodeError", "Expecting value: line 1 column 1 (char 0)"))
    ELSE Returned(o.json)

\* lines 60-62: what the try block returns or raises
TryBlock(o) ==
    IF o.kind = "exception" THEN Raised(o.exc)
    ELSE IF raise_for_status(o) # NoExc THEN Raised(raise_for_status(o))
    ELSE response_json(o)

\* variant: the API-key branch tests 401 in place of 403
OnHTTPError_401(o) ==
    IF o.status_code = 429
    THEN PexelsAPIError("API rate limit exceeded. Please wait before making more requests.")
    ELSE IF o.status_code = 401
    THEN PexelsAPIError("Invalid API key or insufficient permissions.")
    ELSE PexelsAPIError("HTTP error " \o ToString(o.status_code) \o ": " \o o.text)

\* lines 64-70: except requests.exceptions.HTTPError
OnHTTPError(o) ==
    IF o.status_code = 429
    THEN PexelsAPIError("API rate limit exceeded. Please wait before making more requests.")
    ELSE IF o.status_code = 403
    THEN PexelsAPIError("Invalid API key or insufficient permissions.")
    ELSE PexelsAPIError("HTTP error " \o ToString(o.status_code) \o ": " \o o.text)

\* lines 71-72: except requests.exceptions.RequestException
OnRequestException(e) == PexelsAPIError("Request failed: " \o e.msg)

\* lines 73-74: except ValueError
OnValueError(e) == PexelsAPIError("Invalid JSON response: " \o e.msg)

\* variant: the clause for RequestException is missing
ExceptClauses_norequestexception(r, o) ==
    IF r.kind # "raise" THEN r
    ELSE IF IsInstance(r.exc, "HTTPError") THEN Raised(OnHTTPError(o))
    ELSE IF IsInstance(r.exc, "ValueError") THEN Raised(OnValueError(r.exc))
    ELSE r

\* lines 64-74: the first clause whose class the exception is an instance of
ExceptClauses(r, o) ==
    IF r.kind # "raise" THEN r
    ELSE IF IsInstance(r.exc, "HTTPError") THEN Raised(OnHTTPError(o))
    ELSE IF IsInstance(r.exc, "RequestException") THEN Raised(OnRequestException(r.exc))
    ELSE IF IsInstance(r.exc, "ValueError") THEN Raised(OnValueError(r.exc))
    ELSE r

\* what _make_request returns or raises once requests.get has answered with o
_make_request(o) == ExceptClauses(TryBlock(o), o)

----------------------------------------------------------------------------
(* utils.py: raw JSON objects to entities.  d.get(k, default) on a value   *)
(* that is not a dict raises AttributeError; iterating a value that is not *)
(* iterable raises TypeError.                                              *)

PyFloat(lit) == [t |-> "float", f |-> lit]

AttributeError == Exc("AttributeError", "object has no attribute 'get'")
TypeError == Exc("TypeError", "object is not iterable")

\* variant: d.get(k) or default, which replaces a falsy value by the default
Get_ordefault(d, k, default) ==
    IF k \in DOMAIN d.d /\ Truthy(d.d[k]) THEN d.d[k] ELSE default

\* d.get(k, default), for d a dict
Get(d, k, default) == IF k \in DOMAIN d.d THEN d.d[k] ELSE default

\* the characters of a string, each a string of length one
Chars(s) == [n \in 1 .. Len(s) |-> PyStr(SubSeq(s, n, n))]

\* the keys of a dict as a sequence, in some order
RECURSIVE KeySeq(_)
KeySeq(ks) ==
    IF ks = {} THEN <<>>
    ELSE LET k == CHOOSE x \in ks : TRUE IN <<PyStr(k)>> \o KeySeq(ks \ {k})

\* for x in v: the sequence iterated over, or TypeError
Iterate(v) ==
    CASE v.t = "list" -> Returned(v.l)
      [] v.t = "str"  -> Returned(Chars(v.s))
      [] v.t = "dict" -> Returned(KeySeq(DOMAIN v.d))
      [] OTHER        -> Raised(TypeError)

parse_photo(photo_data) ==
    IF photo_data.t # "dict" THEN Raised(AttributeError)
    ELSE LET src_data == Get(photo_data, "src", PyDict(<<>>)) IN
         IF src_data.t # "dict" THEN Raised(AttributeError)
         ELSE Returned(
           [t |-> "Photo",
            id |-> Get(photo_data, "id", PyInt(0)),
            width |-> Get(photo_data, "width", PyInt(0)),
            height |-> Get(photo_data, "height", PyInt(0)),
            url |-> Get(photo_data, "url", PyStr("")),
            photographer |-> Get(photo_data, "photographer", PyStr("")),
            photographer_url |-> Get(photo_data, "photographer_url", PyStr("")),
            photographer_id |-> Get(photo_data, "photographer_id", PyInt(0)),
            avg_color |-> Get(photo_data, "avg_color", PyStr("")),
            src |-> [t |-> "PhotoSRC",
                     original |-> Get(src_data, "original", PyStr("")),
                     large |-> Get(src_data, "large", PyStr("")),
                     large2x |-> Get(src_data, "large2x", PyStr("")),
                     medium |-> Get(src_data, "medium", PyStr("")),
                     small |-> Get(src_data, "small", PyStr("")),
                     portrait |-> Get(src_data, "portrait", PyStr("")),
                     landscape |-> Get(src_data, "landscape", PyStr("")),
                     tiny |-> Get(src_data, "tiny", PyStr(""))],
            alt |-> Get(photo_data, "alt", PyStr(""))])

\* lines 55-63: one VideoFile
parse_video_file(file_data) ==
    IF file_data.t # "dict" THEN Raised(AttributeError)
    ELSE Returned(
           [t |-> "VideoFile",
            id |-> Get(file_data, "id", PyInt(0)),
            quality |-> Get(file_data, "quality", PyStr("")),
            file_type |-> Get(file_data, "file_type", PyStr("")),
            width |-> Get(file_data, "width", PyInt(0)),
            height |-> Get(file_data, "height", PyInt(0)),
            fps |-> Get(file_data, "fps", PyFloat("0.0")),
            link |-> Get(file_data, "link", PyStr(""))])

\* lines 68-72: one VideoPicture
parse_video_picture(pic_data) ==
    IF pic_data.t # "dict" THEN Raised(AttributeError)
    ELSE Returned(
           [t |-> "VideoPicture",
            id |-> Get(pic_data, "id", PyInt(0)),
            picture |-> Get(pic_data, "picture", PyStr("")),
            nr |-> Get(pic_data, "nr", PyInt(0))])

\* a loop that parses each element in order and appends it; the first
\* element that raises ends the loop with its exception
RECURSIVE ParseEach(_, _, _)
ParseEach(what, items, acc) ==
    IF items = <<>> THEN Returned(acc)
    ELSE LET one == IF what = "file" THEN parse_video_file(Head(items))
                    ELSE parse_video_picture(Head(items))
         IN IF one.kind = "raise" THEN one
            ELSE ParseEach(what, Tail(items), Append(acc, one.value))

\* for x in video_data.get(key, []): parse and append
ParseLoop(what, video_data, key) ==
    LET it == Iterate(Get(video_data, key, PyList(<<>>))) IN
    IF it.kind = "raise" THEN it ELSE ParseEach(what, it.value, <<>>)

parse_video(video_data) ==
    IF video_data.t # "dict" THEN Raised(AttributeError)
    ELSE LET user_data == Get(video_data, "user", PyDict(<<>>)) IN
         IF user_data.t # "dict" THEN Raised(AttributeError)
         ELSE LET video_files == ParseLoop("file", video_data, "video_files") IN
              IF video_files.kind = "raise" THEN video_files
              ELSE LET video_pictures == ParseLoop("picture", video_data, "video_pictures") IN
                   IF video_pictures.kind = "raise" THEN video_pictures
                   ELSE Returned(
                     [t |-> "Video",
                      id |-> Get(video_data, "id", PyInt(0)),
                      width |-> Get(video_data, "width", PyInt(0)),
                      height |-> Get(video_data, "height", PyInt(0)),
                      url |-> Get(video_data, "url", PyStr("")),
                      image |-> Get(video_data, "image", PyStr("")),
                      duration |-> Get(video_data, "duration", PyInt(0)),
                      user |-> [t |-> "User",
                                id |-> Get(user_data, "id", PyInt(0)),
                                name |-> Get(user_data, "name", PyStr("")),
                                url |-> Get(user_data, "url", PyStr(""))],
                      video_files |-> video_files.value,
                      video_pictures |-> video_pictures.value])

parse_collection(collection_data) ==
    IF collection_data.t # "dict" THEN Raised(AttributeError)
    ELSE Returned(
           [t |-> "Collection",
            id |-> Get(collection_data, "id", PyStr("")),
            title |-> Get(collection_data, "title", PyStr("")),
            description |-> Get(collection_data, "description", PyStr("")),
            private |-> Get(collection_data, "private", PyBool(TRUE)),
            media_count |-> Get(collection_data, "media_count", PyInt(0)),
            photos_count |-> Get(collection_data, "photos_count", PyInt(0)),
            videos_count |-> Get(collection_data, "videos_count", PyInt(0))])

----------------------------------------------------------------------------
(* The facade, after _make_request has returned: the raw response, or the  *)
(* entities mapped from it when the caller asked for objects.              *)

ParseOne(what, x) ==
    CASE what = "photo" -> parse_photo(x)
      [] what = "video" -> parse_video(x)
      [] what = "collection" -> parse_collection(x)

\* [parse(x) for x in items]
RECURSIVE MapParse(_, _, _)
MapParse(what, items, acc) ==
    IF items = <<>> THEN Returned(acc)
    ELSE LET one == ParseOne(what, Head(items)) IN
         IF one.kind = "raise" THEN one
         ELSE MapParse(what, Tail(items), Append(acc, one.value))

\* variant: the elements are mapped from the last to the first
ParseList_reversed(what, response, key) ==
    IF response.t # "dict" THEN Raised(AttributeError)
    ELSE LET it == Iterate(Get(response, key, PyList(<<>>))) IN
         IF it.kind = "raise" THEN it
         ELSE LET mapped == MapParse(what, [i \in 1 .. Len(it.value) |->
                                               it.value[Len(it.value) + 1 - i]], <<>>) IN
              IF mapped.kind = "raise" THEN mapped ELSE Returned(PyList(mapped.value))

\* [parse(x) for x in response.get(key, [])]
ParseList(what, response, key) ==
    IF response.t # "dict" THEN Raised(AttributeError)
    ELSE LET it == Iterate(Get(response, key, PyList(<<>>))) IN
         IF it.kind = "raise" THEN it
         ELSE LET mapped == MapParse(what, it.value, <<>>) IN
              IF mapped.kind = "raise" THEN mapped ELSE Returned(PyList(mapped.value))

\* [m for m in items if m.get('type', '') == wanted]
RECURSIVE FilterType(_, _, _)
FilterType(items, wanted, acc) ==
    IF items = <<>> THEN Returned(acc)
    ELSE LET m == Head(items) IN
         IF m.t # "dict" THEN Raised(AttributeError)
         ELSE FilterType(Tail(items), wanted,
                         IF Get(m, "type", PyStr("")) = PyStr(wanted) THEN Append(acc, m) ELSE acc)

\* [parse(x) for x in [m for m in response.get('media', []) if m.get('type', '') == wanted]]
ParseMedia(what, response, wanted) ==
    IF response.t # "dict" THEN Raised(AttributeError)
    ELSE LET it == Iterate(Get(response, "media", PyList(<<>>))) IN
         IF it.kind = "raise" THEN it
         ELSE LET kept == FilterType(it.value, wanted, <<>>) IN
              IF kept.kind = "raise" THEN kept ELSE MapParse(what, kept.value, <<>>)

search_photos_result(as_objects, response) ==
    IF Truthy(as_objects) THEN ParseList("photo", response, "photos") ELSE Returned(response)

search_videos_result(as_objects, response) ==
    IF Truthy(as_objects) THEN ParseList("video", response, "videos") ELSE Returned(response)

get_photo_result(as_object, response) ==
    IF Truthy(as_object) THEN parse_photo(response) ELSE Returned(response)

get_video_result(as_object, response) ==
    IF Truthy(as_object) THEN parse_video(response) ELSE Returned(response)

get_curated_photos_result(as_objects, response) ==
    IF Truthy(as_objects) THEN ParseList("photo", response, "photos") ELSE Returned(response)

get_popular_videos_result(as_objects, response) ==
    IF Truthy(as_objects) THEN ParseList("video", response, "videos") ELSE Returned(response)

get_featured_collections_result(as_objects, response) ==
    IF Truthy(as_objects) THEN ParseList("collection", response, "collections")
    ELSE Returned(response)

get_my_collections_result(as_objects, response) ==
    IF Truthy(as_objects) THEN ParseList("collection", response, "collections")
    ELSE Returned(response)

\* variant: the pictures are put before the videos
get_collection_media_result_picturesfirst(as_objects, response) ==
    IF Truthy(as_objects)
    THEN LET videos == ParseMedia("video", response, "Video") IN
         IF videos.kind = "raise" THEN videos
         ELSE LET pictures == ParseMedia("photo", response, "Photo") IN
              IF pictures.kind = "raise" THEN pictures
              ELSE Returned(PyList(pictures.value \o videos.value))
    ELSE Returned(response)

get_collection_media_result(as_objects, response) ==
    IF Truthy(as_objects)
    THEN LET videos == ParseMedia("video", response, "Video") IN
         IF videos.kind = "raise" THEN videos
         ELSE LET pictures == ParseMedia("photo", response, "Photo") IN
              IF pictures.kind = "raise" THEN pictures
              ELSE Returned(PyList(videos.value \o pictures.value))
    ELSE Returned(response)

\* the rest of the operation in progress, once _make_request has returned
FacadeResult(c, response) ==
    CASE c.op = "search_photos" -> search_photos_result(c.args.as_objects, response)
      [] c.op = "search_videos" -> search_videos_result(c.args.as_objects, response)
      [] c.op = "get_photo" -> get_photo_result(c.args.as_object, response)
      [] c.op = "get_video" -> get_video_result(c.args.as_object, response)
      [] c.op = "get_curated_photos" -> get_curated_photos_result(c.args.as_objects, response)
      [] c.op = "get_popular_videos" -> get_popular_videos_result(c.args.as_objects, response)
      [] c.op = "get_featured_collections" ->
            get_featured_collections_result(c.args.as_objects, response)
      [] c.op = "get_my_collections" -> get_my_collections_result(c.args.as_objects, response)
      [] c.op = "get_collection_media" ->
            get_collection_media_result(c.args.as_objects, response)

----------------------------------------------------------------------------
(* The state machine.  A facade operation runs from its first line up to   *)
(* requests.get; Respond is requests.get answering, and runs the operation *)
(* to its end; Return hands the result to the caller.                      *)

NoCall == [op |-> "none", args |-> <<>>, params |-> PyNone]
NoAnswer == [kind |-> "none", status_code |-> 0, text |-> "", json |-> NotJson, exc |-> NoExc]

\* a thread that is not inside a call
IdleThread == [pc |-> "idle", call |-> NoCall, request |-> PyNone, answer |-> NoAnswer,
               result |-> Pending]

\* the threads that call the client, besides the caller of pc
Threads == {"t1", "t2"}

NoFiles == [name \in {} |-> <<>>]

\* a client constructed with an explicit key; no call in progress
Init ==
    /\ pc = "idle"
    /\ call = NoCall
    /\ http = <<>>
    /\ answer = NoAnswer
    /\ result = Pending
    /\ self = __init__(PyStr("key"), PyNone).self
    /\ environ = PyNone
    /\ stdout = <<>>
    /\ files = NoFiles
    /\ threads = [t \in Threads |-> IdleThread]

\* an operation called with args: err is what its argument checks raise
\* (NoExc when they pass), and endpoint, params, base_url are what it hands
\* to _make_request
Invoke(op, args, err, endpoint, params, base_url) ==
    /\ call' = [op |-> op, args |-> args, params |-> IF err # NoExc THEN PyNone ELSE params]
    /\ answer' = NoAnswer
    /\ IF err # NoExc
       THEN /\ pc' = "done"
            /\ result' = Raised(err)
            /\ http' = http
       ELSE /\ pc' = "waiting"
            /\ result' = Pending
            /\ http' = requests_get(http, GetRequest(endpoint, params, base_url))
    /\ UNCHANGED <<self, environ, stdout, files, threads>>

search_photos ==
    /\ pc = "idle"
    /\ \E query \in Queries, orientation \in Orientations, size \in Sizes, color \in Colors,
          locale \in Locales, page \in Pages, per_page \in PerPages, as_objects \in Flags :
           Invoke("search_photos",
                  [query |-> query, orientation |-> orientation, size |-> size, color |-> color,
                   locale |-> locale, page |-> page, per_page |-> per_page,
                   as_objects |-> as_objects],
                  search_photos_validate(query, page, per_page),
                  "search",
                  PyDict([query |-> query, orientation |-> orientation, size |-> size,
                          color |-> color, locale |-> locale, page |-> page,
                          per_page |-> per_page]),
                  PyNone)

search_videos ==
    /\ pc = "idle"
    /\ \E query \in Queries, orientation \in Orientations, size \in Sizes, locale \in Locales,
          page \in Pages, per_page \in PerPages, as_objects \in Flags :
           Invoke("search_videos",
                  [query |-> query, orientation |-> orientation, size |-> size,
                   locale |-> locale, page |-> page, per_page |-> per_page,
                   as_objects |-> as_objects],
                  search_videos_validate(query, page, per_page),
                  "search",
                  PyDict([query |-> query, orientation |-> orientation, size |-> size,
                          locale |-> locale, page |-> page, per_page |-> per_page]),
                  self.VIDEO_BASE_URL)

get_photo ==
    /\ pc = "idle"
    /\ \E photo_id \in Ids, as_object \in Flags :
           Invoke("get_photo", [photo_id |-> photo_id, as_object |-> as_object],
                  NoExc, "photos/" \o Format(photo_id), PyNone, PyNone)

get_video ==
    /\ pc = "idle"
    /\ \E video_id \in Ids, as_object \in Flags :
           Invoke("get_video", [video_id |-> video_id, as_object |-> as_object],
                  NoExc, "videos/" \o Format(video_id), PyNone, self.VIDEO_BASE_URL)

get_curated_photos ==
    /\ pc = "idle"
    /\ \E page \in Pages, per_page \in PerPages, as_objects \in Flags :
           Invoke("get_curated_photos",
                  [page |-> page, per_page |-> per_page, as_objects |-> as_objects],
                  get_curated_photos_validate(page, per_page),
                  "curated",
                  PyDict([page |-> page, per_page |-> per_page]),
                  PyNone)

get_popular_videos ==
    /\ pc = "idle"
    /\ \E min_width \in MinWidths, min_height \in MinHeights, min_duration \in MinDurations,
          max_duration \in MaxDurations, page \in Pages, per_page \in PerPages,
          as_objects \in Flags :
           Invoke("get_popular_videos",
                  [min_width |-> min_width, min_height |-> min_height,
                   min_duration |-> min_duration, max_duration |-> max_duration,
                   page |-> page, per_page |-> per_page, as_objects |-> as_objects],
                  get_popular_videos_validate(page, per_page),
                  "popular",
                  PyDict([min_width |-> min_width, min_height |-> min_height,
                          min_duration |-> min_duration, max_duration |-> max_duration,
                          page |-> page, per_page |-> per_page]),
                  self.VIDEO_BASE_URL)

get_featured_collections ==
    /\ pc = "idle"
    /\ \E page \in Pages, per_page \in PerPages, as_objects \in Flags :
           Invoke("get_featured_collections",
                  [page |-> page, per_page |-> per_page, as_objects |-> as_objects],
                  get_featured_collections_validate(page, per_page),
                  "collections/featured",
                  PyDict([page |-> page, per_page |-> per_page]),
                  PyNone)

get_my_collections ==
    /\ pc = "idle"
    /\ \E page \in Pages, per_page \in PerPages, as_objects \in Flags :
           Invoke("get_my_collections",
                  [page |-> page, per_page |-> per_page, as_objects |-> as_objects],
                  get_my_collections_validate(page, per_page),
                  "collections",
                  PyDict([page |-> page, per_page |-> per_page]),
                  PyNone)

get_collection_media_call(collection_id, media_type, sort, page, per_page, as_objects) ==
    Invoke("get_collection_media",
           [collection_id |-> collection_id, media_type |-> media_type, sort |-> sort,
            page |-> page, per_page |-> per_page, as_objects |-> as_objects],
           get_collection_media_validate(media_type, page, per_page),
           "collections/" \o Format(collection_id),
           PyDict([type |-> media_type, sort |-> sort, page |-> page,
                   per_page |-> per_page]),
           PyNone)

get_collection_media ==
    /\ pc = "idle"
    /\ \E collection_id \in Ids, media_type \in MediaTypes, sort \in Sorts, page \in Pages,
          per_page \in PerPages, as_objects \in Flags :
           get_collection_media_call(collection_id, media_type, sort, page, per_page, as_objects)

\* requests.get answers (a response or an exception); _make_request classifies
\* it and the operation in progress runs to its end
RespondWith(outcomes) ==
    /\ pc = "waiting"
    /\ \E o \in outcomes :
        LET r == _make_request(o) IN
        /\ answer' = o
        /\ result' = IF r.kind = "raise" THEN r ELSE FacadeResult(call, r.value)
    /\ pc' = "done"
    /\ UNCHANGED <<call, http, self, environ, stdout, files, threads>>

Respond == RespondWith(TransportOutcomes)

\* the caller takes the result; the client is ready for the next call
Return ==
    /\ pc = "done"
    /\ pc' = "idle"
    /\ call' = NoCall
    /\ http' = <<>>
    /\ answer' = NoAnswer
    /\ result' = Pending
    /\ stdout' = <<>>
    /\ UNCHANGED <<self, environ, files, threads>>

Next ==
    \/ search_photos
    \/ search_videos
    \/ get_photo
    \/ get_video
    \/ get_curated_photos
    \/ get_popular_videos
    \/ get_featured_collections
    \/ get_my_collections
    \/ get_collection_media
    \/ Respond
    \/ Return

Spec == Init /\ [][Next]_vars

----------------------------------------------------------------------------
(* get_collection_media with as_objects=True, answered with media arrays   *)
(* of every composition and order up to MaxMedia elements.                 *)

MaxMedia == 3

\* elements of a media array: two photos, two videos, an element of another
\* type and an element without a type
MediaElements ==
    { PyDict([type |-> PyStr("Photo"), id |-> PyInt(1)]),
      PyDict([type |-> PyStr("Photo"), id |-> PyInt(2)]),
      PyDict([type |-> PyStr("Video"), id |-> PyInt(3)]),
      PyDict([type |-> PyStr("Video"), id |-> PyInt(4)]),
      PyDict([type |-> PyStr("Collection"), id |-> PyInt(5)]),
      PyDict([id |-> PyInt(6)]) }

MediaArrays == UNION { [1 .. n -> MediaElements] : n \in 0 .. MaxMedia }

\* a 200 answer whose body decodes to {"media": [...]}; the text of such an
\* answer is not read by the code
MediaOutcomes ==
    { [kind |-> "response", status_code |-> 200, text |-> "{\"media\": [...]}",
       json |-> PyDict([media |-> PyList(arr)]), exc |-> NoExc] : arr \in MediaArrays }

get_collection_media_objects ==
    /\ pc = "idle"
    /\ \E collection_id \in {PyInt(7)} :
           get_collection_media_call(collection_id, PyNone, PyNone, PyInt(1), PyInt(15),
                                     PyBool(TRUE))

RespondMedia == RespondWith(MediaOutcomes)

NextMedia ==
    \/ get_collection_media_objects
    \/ RespondMedia
    \/ Return

SpecMedia == Init /\ [][NextMedia]_vars

----------------------------------------------------------------------------
(* The parsers of utils.py, called on their own with JSON values: objects  *)
(* with every subset of the keys, objects in which one key holds a value   *)
(* of another JSON type, and values that are not objects.                  *)

SrcFull ==
    PyDict([original |-> PyStr("o.jpg"), large |-> PyStr("l.jpg"), large2x |-> PyStr("l2.jpg"),
            medium |-> PyStr("m.jpg"), small |-> PyStr("s.jpg"), portrait |-> PyStr("p.jpg"),
            landscape |-> PyStr("ls.jpg"), tiny |-> PyStr("t.jpg")])

PhotoFull ==
    PyDict([id |-> PyInt(1), width |-> PyInt(640), height |-> PyInt(480),
            url |-> PyStr("https://www.pexels.com/photo/1"), photographer |-> PyStr("Ann"),
            photographer_url |-> PyStr("https://www.pexels.com/@ann"),
            photographer_id |-> PyInt(9), avg_color |-> PyStr("#000000"), src |-> SrcFull,
            alt |-> PyStr("a cat")])

UserFull == PyDict([id |-> PyInt(9), name |-> PyStr("Ann"), url |-> PyStr("https://www.pexels.com/@ann")])

FileFull ==
    PyDict([id |-> PyInt(11), quality |-> PyStr("hd"), file_type |-> PyStr("video/mp4"),
            width |-> PyInt(1920), height |-> PyInt(1080), fps |-> PyFloat("29.97"),
            link |-> PyStr("https://videos.pexels.com/11.mp4")])

File2 ==
    PyDict([id |-> PyInt(12), quality |-> PyStr("sd"), file_type |-> PyStr("video/mp4"),
            width |-> PyInt(640), height |-> PyInt(360), fps |-> PyFloat("25.0"),
            link |-> PyStr("https://videos.pexels.com/12.mp4")])

PictureFull == PyDict([id |-> PyInt(21), picture |-> PyStr("https://images.pexels.com/21.jpg"), nr |-> PyInt(0)])

VideoFull ==
    PyDict([id |-> PyInt(2), width |-> PyInt(1920), height |-> PyInt(1080),
            url |-> PyStr("https://www.pexels.com/video/2"),
            image |-> PyStr("https://images.pexels.com/2.jpg"), duration |-> PyInt(30),
            user |-> UserFull, video_files |-> PyList(<<FileFull, File2>>),
            video_pictures |-> PyList(<<PictureFull>>)])

CollectionFull ==
    PyDict([id |-> PyStr("c1"), title |-> PyStr("Cats"), description |-> PyStr("All cats"),
            private |-> PyBool(FALSE), media_count |-> PyInt(3), photos_count |-> PyInt(2),
            videos_count |-> PyInt(1)])

\* JSON values a key can hold in place of the value the API documents
OddValues ==
    { PyNone, PyInt(0), PyStr(""), PyStr("x"), PyBool(FALSE), PyList(<<>>), PyDict(<<>>),
      PyList(<<PyNone>>) }

\* JSON values that are not objects
NonObjects == { PyNone, PyInt(1), PyStr("x"), PyList(<<>>) }

Restrict(full, keys) == PyDict([k \in keys |-> full.d[k]])
Replace1(full, key, v) == PyDict([k \in DOMAIN full.d |-> IF k = key THEN v ELSE full.d[k]])

\* full with some of its keys absent, or with one key holding an odd value
Variants(full) ==
    { Restrict(full, keys) : keys \in SUBSET DOMAIN full.d }
    \cup { Replace1(full, key, v) : key \in DOMAIN full.d, v \in OddValues }

PhotoInputs ==
    Variants(PhotoFull)
    \cup { Replace1(PhotoFull, "src", src) : src \in Variants(SrcFull) }
    \cup NonObjects

VideoInputs ==
    Variants(VideoFull)
    \cup { Replace1(VideoFull, "user", user) : user \in Variants(UserFull) }
    \cup { Replace1(VideoFull, "video_files", PyList(<<File2, file>>)) :
              file \in Variants(FileFull) }
    \cup { Replace1(VideoFull, "video_pictures", PyList(<<pic, PictureFull>>)) :
              pic \in Variants(PictureFull) }
    \cup NonObjects

CollectionInputs == Variants(CollectionFull) \cup NonObjects

\* a parser called directly: it runs to its end in one step
Parse(op, arg, x, r) ==
    /\ pc' = "done"
    /\ call' = [op |-> op, args |-> [a \in {arg} |-> x], params |-> PyNone]
    /\ result' = r
    /\ UNCHANGED <<http, answer, self, environ, stdout, files, threads>>

ParsePhoto ==
    /\ pc = "idle"
    /\ \E x \in PhotoInputs : Parse("parse_photo", "photo_data", x, parse_photo(x))

ParseVideo ==
    /\ pc = "idle"
    /\ \E x \in VideoInputs : Parse("parse_video", "video_data", x, parse_video(x))

ParseCollection ==
    /\ pc = "idle"
    /\ \E x \in CollectionInputs :
        Parse("parse_collection", "collection_data", x, parse_collection(x))

NextParse ==
    \/ ParsePhoto
    \/ ParseVideo
    \/ ParseCollection
    \/ Return

SpecParse == Init /\ [][NextParse]_vars

----------------------------------------------------------------------------
(* download_video.  It runs from its first line up to requests.get (or to  *)
(* its end when no file has the quality asked for); Download is the answer *)
(* of requests.get, the status check and the streamed write to the file.   *)

MaxFiles == 3
MaxChunks == 2

\* the video files of the API: a quality and a width each
FileKinds ==
    { [quality |-> q, width |-> w] : q \in {"sd", "hd"}, w \in {640, 1280} }

\* the JSON of a video whose files are of the kinds ks, each with its own link
VideoJson(ks) ==
    PyDict([id |-> PyInt(7),
            video_files |-> PyList([i \in 1 .. Len(ks) |->
                PyDict([id |-> PyInt(i), quality |-> PyStr(ks[i].quality),
                        width |-> PyInt(ks[i].width),
                        link |-> PyStr("https://videos.pexels.com/" \o ToString(i)
                                       \o ".mp4")])])])

\* the Video objects handed to download_video: parse_video of such a JSON
Videos ==
    { parse_video(VideoJson(ks)).value :
        ks \in UNION { [1 .. n -> FileKinds] : n \in 0 .. MaxFiles } }

RequestedQualities == {"sd", "hd", "uhd"}

\* set([v.quality for v in video.video_files])
AvailableQualities(video) == { video.video_files[i].quality : i \in DOMAIN video.video_files }

\* [v for v in video.video_files if v.quality == quality]
QualityVideos(video, quality) ==
    SelectSeq(video.video_files, LAMBDA v : v.quality = PyStr(quality))

\* variant: a file goes before the files of the same width already placed
RECURSIVE InsertByWidth_beforeequal(_, _)
InsertByWidth_beforeequal(v, sorted) ==
    IF sorted = <<>> THEN <<v>>
    ELSE IF sorted[1].width.i > v.width.i
         THEN <<sorted[1]>> \o InsertByWidth_beforeequal(v, Tail(sorted))
         ELSE <<v>> \o sorted

\* one step of the stable sort by width, widest first: v goes after every
\* file already placed that is at least as wide
RECURSIVE InsertByWidth(_, _)
InsertByWidth(v, sorted) ==
    IF sorted = <<>> THEN <<v>>
    ELSE IF sorted[1].width.i >= v.width.i
         THEN <<sorted[1]>> \o InsertByWidth(v, Tail(sorted))
         ELSE <<v>> \o sorted

\* quality_videos.sort(key=lambda v: v.width, reverse=True)
RECURSIVE SortByWidth(_, _)
SortByWidth(videos, sorted) ==
    IF videos = <<>> THEN sorted
    ELSE SortByWidth(Tail(videos), InsertByWidth(Head(videos), sorted))

\* repr of a set of str: its elements in an order that Python does not fix
RECURSIVE SetReprs(_)
SetReprs(set) ==
    IF set = {} THEN {""}
    ELSE UNION { { "'" \o x.s \o "'" \o (IF rest = "" THEN "" ELSE ", " \o rest) :
                     rest \in SetReprs(set \ {x}) } : x \in set }

\* the messages line 474 can build; the quotation marks it puts around the
\* quality are left out
NotAvailableMessages(video, quality) ==
    { quality \o " is not an available quality. Available: "
        \o (IF AvailableQualities(video) = {} THEN "set()" ELSE "{" \o repr \o "}") :
      repr \in SetReprs(AvailableQualities(video)) }

\* f"{video_id}_{quality}.mp4"
Filename(video, quality) == Format(video.id) \o "_" \o quality \o ".mp4"

\* the arguments of requests.get(selected_video.link, stream=True, timeout=30)
DownloadRequest(video, quality) ==
    [url     |-> SortByWidth(QualityVideos(video, quality), <<>>)[1].link.s,
     stream  |-> TRUE,
     timeout |-> TIMEOUT]

\* print(f"Error downloading vide: {str(e)}")
ErrorLine(e) == "Error downloading vide: " \o e.msg

\* variant: except requests.exceptions.RequestException
ExceptException_requestsonly(e) == IsInstance(e, "RequestException")

\* except Exception
ExceptException(e) == IsInstance(e, "Exception")

\* download_video ends on the exception e raised inside its try block
DownloadFails(e) ==
    IF ExceptException(e)
    THEN /\ stdout' = Append(stdout, ErrorLine(e))
         /\ result' = Returned(PyNone)
    ELSE /\ stdout' = stdout
         /\ result' = Raised(e)

\* open(filename, 'wb') creates or truncates the file, f.write appends
WriteFile(fs, name, chunks) ==
    [n \in DOMAIN fs \cup {name} |-> IF n = name THEN chunks ELSE fs[n]]

\* variant: the file is opened before the quality is looked at
download_video_openfirst ==
    /\ pc = "idle"
    /\ \E video \in Videos, quality \in RequestedQualities :
        /\ call' = [op |-> "download_video", args |-> [video |-> video, quality |-> quality],
                    params |-> PyNone]
        /\ answer' = NoAnswer
        /\ files' = WriteFile(files, Format(video.id) \o "_" \o quality \o ".mp4", <<>>)
        /\ IF PyStr(quality) \notin AvailableQualities(video)
           THEN /\ pc' = "done"
                /\ \E msg \in NotAvailableMessages(video, quality) :
                       IF IsInstance(ValueError(msg), "Exception")
                       THEN /\ stdout' = Append(stdout, ErrorLine(ValueError(msg)))
                            /\ result' = Returned(PyNone)
                       ELSE /\ stdout' = stdout
                            /\ result' = Raised(ValueError(msg))
                /\ http' = http
           ELSE /\ pc' = "waiting"
                /\ result' = Pending
                /\ stdout' = stdout
                /\ http' = requests_get(http, DownloadRequest(video, quality))
    /\ UNCHANGED <<self, environ, threads>>

download_video ==
    /\ pc = "idle"
    /\ \E video \in Videos, quality \in RequestedQualities :
        /\ call' = [op |-> "download_video", args |-> [video |-> video, quality |-> quality],
                    params |-> PyNone]
        /\ answer' = NoAnswer
        /\ IF PyStr(quality) \notin AvailableQualities(video)
           THEN /\ pc' = "done"
                /\ \E msg \in NotAvailableMessages(video, quality) :
                       DownloadFails(ValueError(msg))
                /\ http' = http
           ELSE /\ pc' = "waiting"
                /\ result' = Pending
                /\ stdout' = stdout
                /\ http' = requests_get(http, DownloadRequest(video, quality))
    /\ UNCHANGED <<self, environ, files, threads>>

\* what happens after requests.get was called: it raises, or answers with a
\* status; open() raises or not; the body has chunks chunks, and reading
\* ("net") or writing ("disk") chunk number fail_at raises (0: none does)
DownloadOutcomes ==
    { [kind |-> "exception", status_code |-> 0, exc |-> e, open |-> NoExc, chunks |-> 0,
       fail_at |-> 0, fail |-> "no"] : e \in TransportExceptions }
    \cup
    { [kind |-> "response", status_code |-> s, exc |-> NoExc, open |-> NoExc, chunks |-> 0,
       fail_at |-> 0, fail |-> "no"] : s \in {404, 500} }
    \cup
    { [kind |-> "response", status_code |-> 200, exc |-> NoExc,
       open |-> Exc("PermissionError", "Permission denied"), chunks |-> 0,
       fail_at |-> 0, fail |-> "no"] }
    \cup
    UNION { { [kind |-> "response", status_code |-> 200, exc |-> NoExc, open |-> NoExc,
               chunks |-> n, fail_at |-> k, fail |-> IF k = 0 THEN "no" ELSE f] :
                k \in 0 .. n, f \in {"net", "disk"} } : n \in 0 .. MaxChunks }

\* the exception that ends the try block after requests.get, NoExc when none
DownloadException(o) ==
    IF o.kind = "exception" THEN o.exc
    ELSE IF raise_for_status(o) # NoExc THEN raise_for_status(o)
    ELSE IF o.open # NoExc THEN o.open
    ELSE IF o.fail = "net" THEN Exc("ConnectionError", "Connection broken")
    ELSE IF o.fail = "disk" THEN Exc("OSError", "No space left on device")
    ELSE NoExc

\* the chunks that f.write wrote before the loop ended
Written(o) == [i \in 1 .. (IF o.fail_at = 0 THEN o.chunks ELSE o.fail_at - 1) |-> i]

Download ==
    /\ pc = "waiting"
    /\ call.op = "download_video"
    /\ \E o \in DownloadOutcomes :
        LET filename == Filename(call.args.video, call.args.quality)
            opened == o.kind = "response" /\ raise_for_status(o) = NoExc /\ o.open = NoExc
        IN /\ answer' = o
           /\ files' = IF opened THEN WriteFile(files, filename, Written(o)) ELSE files
           /\ IF DownloadException(o) # NoExc
              THEN DownloadFails(DownloadException(o))
              ELSE /\ result' = Returned(PyStr(filename))
                   /\ stdout' = stdout
    /\ pc' = "done"
    /\ UNCHANGED <<call, http, self, environ, threads>>

NextDownload ==
    \/ download_video
    \/ Download
    \/ Return

SpecDownload == Init /\ [][NextDownload]_vars

----------------------------------------------------------------------------
(* One client object, from its construction on, called from several        *)
(* threads at once.  Each thread runs search_videos or get_photo: up to     *)
(* requests.get in one step (the code between two blocking calls touches    *)
(* no shared object but self, which it only reads), then the answer.        *)

\* Pexels(api_key)
Construct ==
    /\ pc = "idle"
    /\ self = NoClient
    /\ \E api_key \in ApiKeys :
        LET new == __init__(api_key, environ) IN
        /\ call' = [op |-> "__init__", args |-> [api_key |-> api_key], params |-> PyNone]
        /\ result' = IF new.exc # NoExc THEN Raised(new.exc) ELSE Returned(PyNone)
        /\ self' = new.self
    /\ pc' = "done"
    /\ UNCHANGED <<http, answer, environ, stdout, files, threads>>

\* the calls the threads make: what the operation is called with, what its
\* argument checks raise, and what it hands to _make_request
ThreadCalls ==
    { [op |-> "search_videos",
       args |-> [query |-> query, orientation |-> PyNone, size |-> PyNone, locale |-> PyNone,
                 page |-> PyInt(1), per_page |-> PyInt(15), as_objects |-> PyBool(TRUE)],
       err |-> search_videos_validate(query, PyInt(1), PyInt(15)),
       endpoint |-> "search",
       params |-> PyDict([query |-> query, orientation |-> PyNone, size |-> PyNone,
                          locale |-> PyNone, page |-> PyInt(1), per_page |-> PyInt(15)]),
       base_url |-> self.VIDEO_BASE_URL] : query \in {PyStr(""), PyStr("cats")} }
    \cup
    { [op |-> "get_photo",
       args |-> [photo_id |-> PyInt(7), as_object |-> as_object],
       err |-> NoExc,
       endpoint |-> "photos/" \o Format(PyInt(7)),
       params |-> PyNone,
       base_url |-> PyNone] : as_object \in Flags }

\* what the transport answers to the threads
ThreadOutcomes ==
    { o \in TransportOutcomes :
        \/ o.kind = "exception" /\ o.exc.cls = "Timeout"
        \/ o.kind = "response" /\ o.status_code \in {200, 429} /\ o.json.t = "dict" }

\* variant: _make_request stores the base URL it uses in the object
\* (self.BASE_URL = base_url or self.BASE_URL)
ThreadInvoke_storesbase(t, c) ==
    /\ self' = IF c.err # NoExc THEN self
               ELSE [self EXCEPT !.BASE_URL = PyOr(c.base_url, self.BASE_URL)]
    /\ threads' = [threads EXCEPT ![t] =
          IF c.err # NoExc
          THEN [pc |-> "done", call |-> [op |-> c.op, args |-> c.args, params |-> PyNone],
                request |-> PyNone, answer |-> NoAnswer, result |-> Raised(c.err)]
          ELSE [pc |-> "waiting", call |-> [op |-> c.op, args |-> c.args, params |-> c.params],
                request |-> GetRequest(c.endpoint, c.params, c.base_url),
                answer |-> NoAnswer, result |-> Pending]]

\* thread t runs the call c up to requests.get, or to the exception of its
\* argument checks; self is read and not written
ThreadInvoke(t, c) ==
    /\ self' = self
    /\ threads' = [threads EXCEPT ![t] =
          IF c.err # NoExc
          THEN [pc |-> "done", call |-> [op |-> c.op, args |-> c.args, params |-> PyNone],
                request |-> PyNone, answer |-> NoAnswer, result |-> Raised(c.err)]
          ELSE [pc |-> "waiting", call |-> [op |-> c.op, args |-> c.args, params |-> c.params],
                request |-> GetRequest(c.endpoint, c.params, c.base_url),
                answer |-> NoAnswer, result |-> Pending]]

ThreadCall ==
    /\ self # NoClient
    /\ \E t \in Threads :
        /\ threads[t].pc = "idle"
        /\ \E c \in ThreadCalls : ThreadInvoke(t, c)
    /\ UNCHANGED <<pc, call, http, answer, result, environ, stdout, files>>

\* requests.get answers thread t, and its operation runs to its end
ThreadRespond ==
    /\ \E t \in Threads :
        /\ threads[t].pc = "waiting"
        /\ \E o \in ThreadOutcomes :
            LET r == _make_request(o) IN
            threads' = [threads EXCEPT ![t] =
                [@ EXCEPT !.pc = "done", !.answer = o,
                          !.result = IF r.kind = "raise" THEN r
                                     ELSE FacadeResult(threads[t].call, r.value)]]
    /\ UNCHANGED <<pc, call, http, answer, result, self, environ, stdout, files>>

ThreadReturn ==
    /\ \E t \in Threads :
        /\ threads[t].pc = "done"
        /\ threads' = [threads EXCEPT ![t] = IdleThread]
    /\ UNCHANGED <<pc, call, http, answer, result, self, environ, stdout, files>>

\* no object yet, and any value of the environment variable
InitClient ==
    /\ pc = "idle"
    /\ call = NoCall
    /\ http = <<>>
    /\ answer = NoAnswer
    /\ result = Pending
    /\ self = NoClient
    /\ environ \in EnvValues
    /\ stdout = <<>>
    /\ files = NoFiles
    /\ threads = [t \in Threads |-> IdleThread]

NextClient ==
    \/ Construct
    \/ Return
    \/ ThreadCall
    \/ ThreadRespond
    \/ ThreadReturn

SpecClient == InitClient /\ [][NextClient]_vars

----------------------------------------------------------------------------
(* The error taxonomy.  The code raises ValueError for a rejected argument *)
(* and PexelsAPIError for everything the transport reports; the kinds of   *)
(* PexelsAPIError differ by the message the except clause formats.         *)

HasKind(e, k) ==
    CASE k = "InvalidArgument"  -> e.cls = "ValueError"
      [] k = "RateLimited"      -> e.cls = "PexelsAPIError"
                                   /\ StartsWith(e.msg, "API rate limit exceeded")
      [] k = "Unauthorized"     -> e.cls = "PexelsAPIError"
                                   /\ StartsWith(e.msg, "Invalid API key")
      [] k = "HttpError"        -> e.cls = "PexelsAPIError" /\ StartsWith(e.msg, "HTTP error ")
      [] k = "TransportFailure" -> e.cls = "PexelsAPIError"
                                   /\ StartsWith(e.msg, "Request failed: ")
      [] k = "DecodeError"      -> e.cls = "PexelsAPIError"
                                   /\ StartsWith(e.msg, "Invalid JSON response: ")

TransportKinds == {"RateLimited", "Unauthorized", "HttpError", "TransportFailure", "DecodeError"}
Kinds == {"InvalidArgument"} \cup TransportKinds

\* the kinds an exception is reported as
KindsOf(e) == {k \in Kinds : HasKind(e, k)}

\* the call in progress has failed with exactly the kind k
FailedWith(k) == pc = "done" /\ result.kind = "raise" /\ KindsOf(result.exc) = {k}

----------------------------------------------------------------------------
(* The claims.                                                             *)

SearchOps == {"search_photos", "search_videos"}
PaginatedOps ==
    SearchOps \cup {"get_curated_photos", "get_popular_videos", "get_featured_collections",
                    "get_my_collections", "get_collection_media"}

\* the rules of the specification, read off the arguments of the call in progress
QueryMissing == call.op \in SearchOps /\ call.args.query \in {PyNone, PyStr("")}
PaginationBad ==
    call.op \in PaginatedOps /\ (call.args.per_page.i > 80 \/ call.args.page.i < 1)
MediaTypeBad ==
    /\ call.op = "get_collection_media"
    /\ call.args.media_type \notin {PyStr("photos"), PyStr("videos"), PyNone}
RuleViolated == QueryMissing \/ PaginationBad \/ MediaTypeBad

\* requests.get has answered the call in progress with a response
Answered == pc = "done" /\ answer.kind = "response"

\* the message of HttpError for the response received
HttpErrorMessage == "HTTP error " \o ToString(answer.status_code) \o ": " \o answer.text

\* C1: in every operation that validates, a call that violates a validation
\* rule fails with InvalidArgument, and no GET is issued at any point of it.
C1_ValidationBeforeNetwork ==
    RuleViolated => FailedWith("InvalidArgument") /\ http = <<>>

C1_Witness ==
    /\ call.op = "get_collection_media"
    /\ call.args.media_type = PyStr("Photo")
    /\ call.args.page = PyInt(1)
    /\ call.args.per_page = PyInt(15)
    /\ FailedWith("InvalidArgument")
    /\ http = <<>>

\* C2: status 429 is reported as RateLimited, 403 as Unauthorized, 500 as
\* HttpError carrying the code 500, and a connection-level failure as
\* TransportFailure, each as that kind and no other.
C2_StatusClassification ==
    /\ Answered /\ answer.status_code = 429 => FailedWith("RateLimited")
    /\ Answered /\ answer.status_code = 403 => FailedWith("Unauthorized")
    /\ Answered /\ answer.status_code = 500 =>
          FailedWith("HttpError") /\ result.exc.msg = "HTTP error 500: " \o answer.text
    /\ pc = "done" /\ answer.kind = "exception" => FailedWith("TransportFailure")

C2_Witness ==
    /\ Answered
    /\ answer.status_code = 403
    /\ FailedWith("Unauthorized")
    /\ result.exc.msg = "Invalid API key or insufficient permissions."

\* C3: whatever requests.get answers, _make_request either returns the
\* decoded JSON (and the operation goes on with it) or raises PexelsAPIError
\* of exactly one kind of the taxonomy; no exception of requests escapes.
C3_ClassificationTotal ==
    pc = "done" /\ answer.kind # "none" =>
        \/ /\ result.kind = "raise"
           /\ result.exc.cls = "PexelsAPIError"
           /\ Cardinality(KindsOf(result.exc)) = 1
           /\ KindsOf(result.exc) \subseteq TransportKinds
        \/ /\ answer.kind = "response"
           /\ answer.json # NotJson
           /\ result = FacadeResult(call, answer.json)

C3_Witness ==
    /\ pc = "done"
    /\ answer.kind = "exception"
    /\ answer.exc.cls = "Timeout"
    /\ result.kind = "raise"
    /\ result.exc = PexelsAPIError("Request failed: Read timed out")

\* C4: a response with a success status whose body is not valid JSON fails
\* with DecodeError (Invalid JSON response), and with no other kind.
C4_DecodeError ==
    Answered /\ answer.status_code \in 200 .. 299 /\ answer.json = NotJson =>
        FailedWith("DecodeError")

\* C5, as claimed: every response whose status is not 2xx and is neither 429
\* nor 403 fails with HttpError carrying the status code and the body text.
C5_Original ==
    Answered /\ answer.status_code \notin 200 .. 299 /\ answer.status_code \notin {429, 403} =>
        FailedWith("HttpError") /\ result.exc.msg = HttpErrorMessage

\* C5, amended: every response whose status is 4xx or 5xx and is neither 429
\* nor 403 fails with HttpError carrying the status code and the body text,
\* and no 4xx or 5xx response returns a value.
C5_HttpErrorOn4xx5xx ==
    /\ Answered /\ answer.status_code \in 400 .. 599 /\ answer.status_code \notin {429, 403} =>
          FailedWith("HttpError") /\ result.exc.msg = HttpErrorMessage
    /\ Answered /\ answer.status_code \in 400 .. 599 => result.kind = "raise"

C5_Witness ==
    /\ Answered
    /\ answer.status_code = 404
    /\ answer.text = "<html>Bad Gateway</html>"
    /\ FailedWith("HttpError")
    /\ result.exc.msg = "HTTP error 404: <html>Bad Gateway</html>"

\* C6: a call issues at most one GET: exactly one once validation has
\* passed, and still one after that request has failed (no retry).
C6_AtMostOneGet ==
    /\ Len(http) <= 1
    /\ pc = "waiting" => Len(http) = 1
    /\ pc = "done" /\ ~FailedWith("InvalidArgument") => Len(http) = 1

C6_Witness ==
    /\ FailedWith("TransportFailure")
    /\ answer.kind = "exception"
    /\ Len(http) = 1

\* the mapping the operation in progress handed to _make_request is a dict
\* and its GET has been issued
ParamsSent == pc \in {"waiting", "done"} /\ http # <<>> /\ call.params.t = "dict"

\* C7: the query set of the GET holds exactly the keys of the handed mapping
\* whose value is not None, each with its value unchanged; empty strings and
\* zeros are kept.
C7_QueryOmitsOnlyNone ==
    ParamsSent =>
        /\ http[1].params.t = "dict"
        /\ DOMAIN http[1].params.d = {k \in DOMAIN call.params.d : call.params.d[k] # PyNone}
        /\ \A k \in DOMAIN http[1].params.d : http[1].params.d[k] = call.params.d[k]

C7_Witness ==
    /\ ParamsSent
    /\ call.op = "get_popular_videos"
    /\ call.params.d["min_width"] = PyInt(0)
    /\ call.params.d["min_height"] = PyNone
    /\ call.params.d["min_duration"] = PyInt(0)
    /\ DOMAIN http[1].params.d = {"min_width", "min_duration", "max_duration", "page", "per_page"}
    /\ http[1].params.d["min_width"] = PyInt(0)

\* the other rules of the call in progress hold, so only pagination decides
OnlyPaginationDecides == ~QueryMissing /\ ~MediaTypeBad

\* C8: in each of the seven paginated operations per_page > 80 or page < 1
\* fails with InvalidArgument, and any other per_page and page (80 and 1,
\* zero, negative per_page) pass and are sent as given.
C8_PaginationCheck ==
    call.op \in PaginatedOps =>
        /\ PaginationBad => FailedWith("InvalidArgument") /\ http = <<>>
        /\ ~PaginationBad /\ OnlyPaginationDecides =>
              /\ ~FailedWith("InvalidArgument")
              /\ Len(http) = 1
              /\ http[1].params.d["per_page"] = call.args.per_page
              /\ http[1].params.d["page"] = call.args.page

C8_Witness ==
    /\ call.op = "get_my_collections"
    /\ call.args.per_page = PyInt(-1)
    /\ call.args.page = PyInt(1)
    /\ pc = "waiting"
    /\ http[1].params.d["per_page"] = PyInt(-1)

\* C9: search_photos and search_videos with an empty or absent query fail
\* with InvalidArgument whatever the other arguments are.
C9_EmptyQueryRejected ==
    QueryMissing => FailedWith("InvalidArgument") /\ http = <<>>

C9_Witness ==
    /\ call.op = "search_videos"
    /\ call.args.query = PyStr("")
    /\ call.args.per_page = PyInt(81)
    /\ call.args.page = PyInt(0)
    /\ call.args.orientation = PyStr("landscape")
    /\ FailedWith("InvalidArgument")

\* C10: get_collection_media rejects with InvalidArgument every media_type
\* other than "photos", "videos" and None, and lets these three pass.
C10_MediaTypeEnum ==
    call.op = "get_collection_media" =>
        /\ MediaTypeBad => FailedWith("InvalidArgument") /\ http = <<>>
        /\ ~MediaTypeBad /\ ~PaginationBad => ~FailedWith("InvalidArgument") /\ Len(http) = 1

C10_Witness ==
    /\ call.op = "get_collection_media"
    /\ call.args.media_type = PyNone
    /\ pc = "waiting"
    /\ Len(http) = 1
    /\ "type" \notin DOMAIN http[1].params.d

\* the operations that hand VIDEO_BASE_URL to _make_request
VideoOps == {"search_videos", "get_popular_videos", "get_video"}

\* C11: every GET of search_videos, get_popular_videos and get_video goes to
\* a URL under the video base URL, and every GET of the other six operations
\* to a URL under the general base URL, whatever the arguments are.
C11_BaseUrlByOperation ==
    http # <<>> =>
        StartsWith(http[1].url, IF call.op \in VideoOps THEN VIDEO_BASE_URL ELSE BASE_URL)

\* the elements of a media array whose type is ty, in the order of the array
OfType(media, ty) ==
    SelectSeq(media, LAMBDA m : "type" \in DOMAIN m.d /\ m.d["type"] = PyStr(ty))

\* C12: get_collection_media with as_objects=True, answered with a media
\* array, returns the Video of every element of type "Video", in the order
\* of the array, followed by the Photo of every element of type "Photo", in
\* the order of the array, and nothing else.
C12_VideosThenPhotos ==
    (pc = "done" /\ call.op = "get_collection_media" /\ Truthy(call.args.as_objects)
     /\ answer \in MediaOutcomes) =>
        LET media == answer.json.d.media.l
            videos == OfType(media, "Video")
            photos == OfType(media, "Photo")
        IN result = Returned(PyList(
               [i \in 1 .. Len(videos) |-> parse_video(videos[i]).value]
               \o [i \in 1 .. Len(photos) |-> parse_photo(photos[i]).value]))

\* a photo, an element of another type and a video, in that order, gave the
\* video and then the photo
C12_Witness ==
    /\ pc = "done" /\ call.op = "get_collection_media" /\ Truthy(call.args.as_objects)
    /\ answer \in MediaOutcomes
    /\ answer.json.d.media.l = << PyDict([type |-> PyStr("Photo"), id |-> PyInt(2)]),
                                  PyDict([type |-> PyStr("Collection"), id |-> PyInt(5)]),
                                  PyDict([type |-> PyStr("Video"), id |-> PyInt(3)]) >>
    /\ result.kind = "return"
    /\ Len(result.value.l) = 2
    /\ result.value.l[1].t = "Video" /\ result.value.l[1].id = PyInt(3)
    /\ result.value.l[2].t = "Photo" /\ result.value.l[2].id = PyInt(2)

ParseOps == {"parse_photo", "parse_video", "parse_collection"}

\* the JSON value a parser was called with
ParseInput ==
    CASE call.op = "parse_photo" -> call.args.photo_data
      [] call.op = "parse_video" -> call.args.video_data
      [] call.op = "parse_collection" -> call.args.collection_data

\* the defaults of the fields that are taken from a key of the same name
PhotoSRCDefaults ==
    [original |-> PyStr(""), large |-> PyStr(""), large2x |-> PyStr(""), medium |-> PyStr(""),
     small |-> PyStr(""), portrait |-> PyStr(""), landscape |-> PyStr(""), tiny |-> PyStr("")]
PhotoDefaults ==
    [id |-> PyInt(0), width |-> PyInt(0), height |-> PyInt(0), url |-> PyStr(""),
     photographer |-> PyStr(""), photographer_url |-> PyStr(""), photographer_id |-> PyInt(0),
     avg_color |-> PyStr(""), alt |-> PyStr("")]
UserDefaults == [id |-> PyInt(0), name |-> PyStr(""), url |-> PyStr("")]
VideoFileDefaults ==
    [id |-> PyInt(0), quality |-> PyStr(""), file_type |-> PyStr(""), width |-> PyInt(0),
     height |-> PyInt(0), fps |-> PyFloat("0.0"), link |-> PyStr("")]
VideoPictureDefaults == [id |-> PyInt(0), picture |-> PyStr(""), nr |-> PyInt(0)]
VideoDefaults ==
    [id |-> PyInt(0), width |-> PyInt(0), height |-> PyInt(0), url |-> PyStr(""),
     image |-> PyStr(""), duration |-> PyInt(0)]
CollectionDefaults ==
    [id |-> PyStr(""), title |-> PyStr(""), description |-> PyStr(""), private |-> PyBool(TRUE),
     media_count |-> PyInt(0), photos_count |-> PyInt(0), videos_count |-> PyInt(0)]

\* every field of the entity is the value of its key in the JSON object, or
\* its default when the object has no such key
FieldsFollow(entity, object, defaults) ==
    \A f \in DOMAIN defaults :
        entity[f] = IF f \in DOMAIN object.d THEN object.d[f] ELSE defaults[f]

\* the nested object under key: absent, it is the empty object
Nested(object, key) == IF key \in DOMAIN object.d THEN object.d[key] ELSE PyDict(<<>>)

\* the entities of a list field follow the elements of the JSON array under
\* key, one for one and in order; the list is empty when the key is absent
ListFollows(entities, object, key, defaults) ==
    IF key \notin DOMAIN object.d THEN entities = <<>>
    ELSE object.d[key].t = "list" =>
            /\ Len(entities) = Len(object.d[key].l)
            /\ \A i \in 1 .. Len(entities) :
                   FieldsFollow(entities[i], object.d[key].l[i], defaults)

\* C13: in the entity that parse_photo, parse_video or parse_collection
\* returns, every field (those of the nested src, user, video files and
\* video pictures included) equals the value of its key in the input when
\* the key is present, and otherwise the default: 0, 0.0, "" or the empty
\* list, and true for Collection.private.
C13_FieldsFollowInput ==
    (pc = "done" /\ call.op \in ParseOps /\ result.kind = "return") =>
        LET x == ParseInput
            e == result.value
        IN CASE call.op = "parse_photo" ->
                    /\ FieldsFollow(e, x, PhotoDefaults)
                    /\ FieldsFollow(e.src, Nested(x, "src"), PhotoSRCDefaults)
             [] call.op = "parse_video" ->
                    /\ FieldsFollow(e, x, VideoDefaults)
                    /\ FieldsFollow(e.user, Nested(x, "user"), UserDefaults)
                    /\ ListFollows(e.video_files, x, "video_files", VideoFileDefaults)
                    /\ ListFollows(e.video_pictures, x, "video_pictures", VideoPictureDefaults)
             [] call.op = "parse_collection" ->
                    FieldsFollow(e, x, CollectionDefaults)

\* a collection without the key private, and with title and media_count,
\* came out private with that title and that count
C13_Witness ==
    /\ pc = "done" /\ call.op = "parse_collection" /\ result.kind = "return"
    /\ DOMAIN ParseInput.d = {"title", "media_count"}
    /\ result.value.private = PyBool(TRUE)
    /\ result.value.title = PyStr("Cats")
    /\ result.value.media_count = PyInt(3)
    /\ result.value.id = PyStr("")

\* C14: parse_photo, parse_video and parse_collection raise exactly when
\* their input is not a JSON object; on a JSON object they return an entity
\* whatever values its keys hold.
C14_ParsersTotal ==
    (pc = "done" /\ call.op \in ParseOps) =>
        (result.kind = "raise" <=> ParseInput.t # "dict")

\* the list operations that map an array of the response, with the key of
\* the array and the entity of its elements; the lookups, with their entity
ListOps ==
    [search_photos |-> [key |-> "photos", what |-> "photo"],
     get_curated_photos |-> [key |-> "photos", what |-> "photo"],
     search_videos |-> [key |-> "videos", what |-> "video"],
     get_popular_videos |-> [key |-> "videos", what |-> "video"],
     get_featured_collections |-> [key |-> "collections", what |-> "collection"],
     get_my_collections |-> [key |-> "collections", what |-> "collection"]]
LookupOps == [get_photo |-> "photo", get_video |-> "video"]

\* the flag as_objects / as_object of the call in progress
TypedFlag ==
    IF call.op \in DOMAIN LookupOps THEN call.args.as_object ELSE call.args.as_objects

\* the call in progress is over and the transport handed it a decoded value
Decoded ==
    /\ pc = "done"
    /\ call.op \in DOMAIN ListOps \cup DOMAIN LookupOps \cup {"get_collection_media"}
    /\ answer.kind = "response"
    /\ _make_request(answer).kind = "return"

\* C15: with the flag off every list and lookup operation returns the
\* decoded JSON value unchanged; with the flag on and a JSON object decoded,
\* a list operation returns the entities of the elements of its array, as
\* many and in the same order, and the empty list when the object has no
\* such key, and a lookup returns the entity of the object itself.
C15_RawOrTyped ==
    Decoded =>
        LET response == _make_request(answer).value IN
        IF ~Truthy(TypedFlag) THEN result = Returned(response)
        ELSE response.t = "dict" =>
            IF call.op \in DOMAIN ListOps
            THEN LET key == ListOps[call.op].key
                     what == ListOps[call.op].what
                 IN IF key \notin DOMAIN response.d THEN result = Returned(PyList(<<>>))
                    ELSE LET arr == response.d[key].l IN
                         result = Returned(PyList([i \in 1 .. Len(arr) |->
                                                      ParseOne(what, arr[i]).value]))
            ELSE IF call.op \in DOMAIN LookupOps
            THEN /\ result.kind = "return"
                 /\ result.value = ParseOne(LookupOps[call.op], response).value
            ELSE TRUE

\* search_videos with as_objects=True returned the videos 2 and 4 of the
\* answer, in that order
C15_Witness ==
    /\ Decoded /\ call.op = "search_videos" /\ Truthy(TypedFlag)
    /\ result.kind = "return"
    /\ Len(result.value.l) = 2
    /\ result.value.l[1].t = "Video" /\ result.value.l[1].id = PyInt(2)
    /\ result.value.l[2].t = "Video" /\ result.value.l[2].id = PyInt(4)

\* download_video is in progress or over
Downloading == pc \in {"waiting", "done"} /\ call.op = "download_video"

\* the places in video_files of the files of the requested quality
Matching ==
    { i \in DOMAIN call.args.video.video_files :
        call.args.video.video_files[i].quality = PyStr(call.args.quality) }

\* the first of the widest files of the requested quality
Widest ==
    CHOOSE i \in Matching :
        \A j \in Matching :
            \/ call.args.video.video_files[i].width.i > call.args.video.video_files[j].width.i
            \/ /\ call.args.video.video_files[i].width.i = call.args.video.video_files[j].width.i
               /\ i <= j

\* C16: when a file of the video has the requested quality, download_video
\* issues one GET, to the link of the widest file of that quality, and of
\* the first such file in video_files when several are the widest; never to
\* the link of a file of another quality.
C16_WidestOfQuality ==
    (Downloading /\ Matching # {}) =>
        /\ Len(http) = 1
        /\ http[1].url = call.args.video.video_files[Widest].link.s

\* hd asked of a video with a wider sd file and two hd files of one width:
\* the first hd file is fetched
C16_Witness ==
    /\ Downloading /\ call.args.quality = "hd"
    /\ Len(call.args.video.video_files) = 3
    /\ call.args.video.video_files[1].quality = PyStr("sd")
    /\ call.args.video.video_files[1].width = PyInt(1280)
    /\ call.args.video.video_files[2].quality = PyStr("hd")
    /\ call.args.video.video_files[2].width = PyInt(640)
    /\ call.args.video.video_files[3].quality = PyStr("hd")
    /\ call.args.video.video_files[3].width = PyInt(640)
    /\ http[1].url = "https://videos.pexels.com/2.mp4"

\* C17: when no file of the video has the requested quality, download_video
\* fails with InvalidArgument.
C17_NoMatchFails ==
    (pc = "done" /\ call.op = "download_video" /\ Matching = {}) =>
        result.kind = "raise" /\ HasKind(result.exc, "InvalidArgument")

\* the answer was a response below 400, the file was opened and every chunk
\* of the body was read and written to it
Completed ==
    /\ answer.kind = "response"
    /\ answer.status_code < 400
    /\ answer.open = NoExc
    /\ answer.fail = "no"
    /\ LET filename == Filename(call.args.video, call.args.quality) IN
       /\ filename \in DOMAIN files
       /\ files[filename] = [i \in 1 .. answer.chunks |-> i]

\* C20: download_video never raises; it returns the filename when the fetch
\* and the whole write completed, and None in every other case.
C20_NeverRaises ==
    (pc = "done" /\ call.op = "download_video") =>
        /\ result.kind = "return"
        /\ IF Completed
           THEN result.value = PyStr(Filename(call.args.video, call.args.quality))
           ELSE result.value = PyNone

\* the disk failed on the second chunk: one chunk is in the file, the error
\* was printed and None returned
C20_Witness ==
    /\ pc = "done" /\ call.op = "download_video"
    /\ answer.kind = "response" /\ answer.fail = "disk" /\ answer.fail_at = 2
    /\ files[Filename(call.args.video, call.args.quality)] = <<1>>
    /\ stdout = <<"Error downloading vide: No space left on device">>
    /\ result = Returned(PyNone)

\* the request a call sends when it runs alone on the client: the URL
\* under the base URL of its operation, the headers of the construction
RequestAlone(c) ==
    [url     |-> Urljoin(IF c.op \in VideoOps THEN VIDEO_BASE_URL ELSE BASE_URL,
                         IF c.op = "get_photo" THEN "photos/" \o Format(c.args.photo_id)
                         ELSE "search"),
     headers |-> PyDict(("Authorization" :> self.api_key)
                        @@ ("User-Agent" :> PyStr("pypexel/0.1.1"))),
     params  |-> CleanParams(c.params),
     timeout |-> TIMEOUT]

\* the result a call returns when it runs alone and gets the answer o
ResultAlone(c, o) ==
    LET r == _make_request(o) IN
    IF r.kind = "raise" THEN r ELSE FacadeResult(c, r.value)

\* every thread inside a call has sent the request, and has the result, of
\* its own call and answer
ThreadsAlone ==
    \A t \in Threads :
        /\ threads[t].pc = "waiting" => threads[t].request = RequestAlone(threads[t].call)
        /\ (threads[t].pc = "done" /\ threads[t].request # PyNone) =>
              /\ threads[t].request = RequestAlone(threads[t].call)
              /\ threads[t].result = ResultAlone(threads[t].call, threads[t].answer)

\* C18: once the client is constructed no operation changes its API key,
\* its headers or its base URLs, and in every interleaving of the calls of
\* several threads each call sends the request and returns the result of
\* the same call running alone.
C18_NoSharedState ==
    /\ []ThreadsAlone
    /\ [][self # NoClient => self' = self]_vars

\* both threads are inside a call at once, one on the video base URL and
\* one on the general base URL, and one of them has its result
C18_Witness ==
    /\ threads["t1"].pc = "done" /\ threads["t1"].call.op = "search_videos"
    /\ threads["t1"].result.kind = "return"
    /\ threads["t2"].pc = "waiting" /\ threads["t2"].call.op = "get_photo"
    /\ threads["t2"].request.url = "https://api.pexels.com/v1/photos/7"

\* a value that supplies a key: a string that is not empty
SuppliesKey(v) == v.t = "str" /\ v.s # ""

\* C19: the constructor takes the key passed to it when that is a non-empty
\* string and otherwise the value of PEXELS_API_KEY; it raises the
\* ValueError "API key is required..." exactly when neither is a non-empty
\* string, and otherwise the Authorization header is the key it took.
C19_KeyChoice ==
    (pc = "done" /\ call.op = "__init__") =>
        LET chosen == IF SuppliesKey(call.args.api_key) THEN call.args.api_key ELSE environ IN
        IF SuppliesKey(chosen)
        THEN /\ result = Returned(PyNone)
             /\ self.api_key = chosen
             /\ self.headers.d["Authorization"] = chosen
        ELSE /\ result.kind = "raise"
             /\ result.exc.cls = "ValueError"
             /\ StartsWith(result.exc.msg, "API key is required")
             /\ self = NoClient

\* an empty key was passed and the environment variable holds a key: the
\* client is built with the key of the environment
C19_Witness ==
    /\ pc = "done" /\ call.op = "__init__"
    /\ call.args.api_key = PyStr("") /\ environ = PyStr("env-key")
    /\ result = Returned(PyNone)
    /\ self.headers.d["Authorization"] = PyStr("env-key")

\* download_video is in progress or over and no file of the video has the
\* requested quality
NoMatchCall == Downloading /\ Matching = {}

\* C21: a call of download_video whose requested quality matches no file of
\* the video issues no GET at any point and is not answered by the
\* transport, and the step that runs it leaves every file on disk as it was
\* and creates none.
C21_CheckBeforeNetworkAndDisk ==
    /\ [](NoMatchCall => http = <<>> /\ answer = NoAnswer)
    /\ [][NoMatchCall' => files' = files /\ http' = <<>>]_vars

\* uhd was asked of a video with an sd and an hd file, after an earlier call
\* wrote a file: the call is over, no GET was issued and None is returned
C21_Witness ==
    /\ NoMatchCall /\ pc = "done"
    /\ call.args.quality = "uhd"
    /\ AvailableQualities(call.args.video) = {PyStr("sd"), PyStr("hd")}
    /\ DOMAIN files # {}
    /\ "7_uhd.mp4" \notin DOMAIN files
    /\ http = <<>>
    /\ result = Returned(PyNone)

====
